---- MODULE Spec2Model ----
(***************************************************************************)
(* The real-time rank monitoring service                                   *)
(* (backend/services/realtime_monitoring_service.py) as a state machine:   *)
(* the Redis keys it owns, the task table, the websocket set and one       *)
(* program counter per monitoring loop task, with one step per await.      *)
(***************************************************************************)
EXTENDS Integers, Sequences, FiniteSets, TLC

\* ------------------------------------------------------------- bounds
\* loop tasks ever created by start_monitoring
MaxTasks == 2
\* start_monitoring calls ever made
MaxStarts == 2
\* iterations of the while loop, all tasks together
MaxCycles == 2
\* Redis commands that fail
MaxFaults == 1
\* iterations of the while loop when Redis commands and fetches may fail
MaxFaultCycles == 2
\* websocket transports that close
MaxCloses == 1
\* snapshots processed in the sequential specification
MaxSnapshots == 2
\* clock advances in the sequential specification
MaxTicks == 1
\* broadcasts of the ConnectionManager
MaxBroadcasts == 1
MaxMessages == 1

\* ------------------------------------------------------------- constants
\* alert_thresholds["rank_drop"]
RankDropThreshold == 3
\* severity="warning" if position_change < 5 else "critical"
CriticalDropChange == 5
\* len(positions) > 10
MinVolatilitySamples == 10
\* ltrim(alert_key, 0, 999)
AlertListCap == 1000
\* competitors[:5]
TopCompetitors == 5
\* timedelta(hours=24), in hours
VolatilityWindow == 24
\* expire=86400 * 30 of the history key, in hours
HistoryTtl == 720

Projects == {"p1"}

\* The projects the service keeps Redis keys and a task entry for; p2 is
\* monitored in the two-project specification only.
ProjectIds == {"p1", "p2"}
Keywords == {"k1", "k2"}
Conns == {"w1"}
\* the connections of the specification of the pushes
Sockets == {"w1", "w2", "w3"}
\* websocket_endpoint(websocket, project_id): the project in the path
\* /ws/monitoring/{project_id} each connection was opened with
PathProject == [c \in Sockets |-> IF c = "w2" THEN "p2" ELSE "p1"]
\* the connections of the ConnectionManager and the user_id of their path /ws/{user_id}
ManagerConns == {"m1", "m2", "m3"}
UserOf == [c \in ManagerConns |-> IF c = "m3" THEN "u2" ELSE "u1"]
TaskIds == 1..MaxTasks
NoTask == 0
OurDomain == "example.com"

Max(S) == CHOOSE x \in S : \A y \in S : y <= x
Range(f) == {f[i] : i \in DOMAIN f}
Take(s, n) == IF Len(s) <= n THEN s ELSE SubSeq(s, 1, n)

\* ------------------------------------------------------------- the data provider
\* One SERP item of the provider's response: its type and the domain its url is on.
Organic(d) == [type |-> "organic", domain |-> d]
Feature(f) == [type |-> f, domain |-> ""]

\* The responses get_serp_data gives the loop in this model.  DataForSEOClient
\* answers a failed request (non-200 status, timeout, unparsable body) with a
\* dict that has an "error" key and no "tasks" key; a client may also raise.
Serp1 == <<Organic(OurDomain)>>
Serp4 == <<Feature("people_also_ask"), Feature("people_also_ask"), Feature("people_also_ask"), Organic(OurDomain)>>
ErrorResponse == <<"error">>
RaisedResponse == <<"raise">>
OkResponse(items) == <<"ok", items>>
Responses == {RaisedResponse, ErrorResponse, OkResponse(Serp1)}

\* _make_request: what the loop's fetch sees when the request fails without the
\* client raising: {"error": ...}, a dict with no "tasks".
MakeRequestFailed == ErrorResponse

\* serp_data.get("tasks") and serp_data["tasks"][0].get("result")
HasResult(resp) == resp[1] = "ok"

ItemsOf(resp) == IF HasResult(resp) THEN resp[2] ELSE <<>>

\* for i, item in enumerate(items): the last organic item on our domain wins
OurIndexes(items) == {i \in 1..Len(items) : items[i].type = "organic" /\ items[i].domain = OurDomain}

\* position or 0
PositionOf(items) == IF OurIndexes(items) = {} THEN 0 ELSE Max(OurIndexes(items))

RECURSIVE CompetitorsOf(_)
CompetitorsOf(items) ==
    IF items = <<>> THEN <<>>
    ELSE LET rest == CompetitorsOf(Tail(items))
             it == Head(items)
         IN IF it.type = "organic" /\ it.domain # OurDomain THEN <<it.domain>> \o rest ELSE rest

FeaturesOf(items) == {items[i].type : i \in {j \in 1..Len(items) : items[j].type # "organic"}}

\* _check_keyword_ranking, after the await of get_serp_data returned resp
CheckKeywordRanking(keyword, resp, utcnow) ==
    [keyword |-> keyword,
     timestamp |-> utcnow,
     position |-> PositionOf(ItemsOf(resp)),
     serp_features |-> FeaturesOf(ItemsOf(resp)),
     competitors |-> Take(CompetitorsOf(ItemsOf(resp)), TopCompetitors)]

\* ------------------------------------------------------------- change detection
\* An alert as _send_alert persists it: change is data.change of a rank alert,
\* data.volatility of a volatility alert and 0 otherwise; timestamp is
\* snapshot.timestamp.
Alert(type, severity, snapshot, change) ==
    [type |-> type, severity |-> severity, keyword |-> snapshot.keyword, change |-> change, timestamp |-> snapshot.timestamp]

\* position_change = snapshot.position - previous_position
PositionChange(previous, snapshot) == snapshot.position - previous.position

\* severity="warning" if position_change < 5 else "critical"
DropSeverity(change) == IF change < CriticalDropChange THEN "warning" ELSE "critical"

\* if position_change >= rank_drop: RANK_DROP  elif position_change <= -rank_drop: RANK_GAIN
RankAlerts(previous, snapshot) ==
    LET change == PositionChange(previous, snapshot)
    IN IF change >= RankDropThreshold
       THEN <<Alert("rank_drop", DropSeverity(change), snapshot, change)>>
       ELSE IF change <= -RankDropThreshold
            THEN <<Alert("rank_gain", "info", snapshot, change)>>
            ELSE <<>>

\* new_competitors = current_competitors - previous_competitors
CompetitorAlerts(previous, snapshot) ==
    IF Range(snapshot.competitors) \ Range(previous.competitors) # {}
    THEN <<Alert("new_competitor", "info", snapshot, 0)>>
    ELSE <<>>

\* if "featured_snippet" in lost_features: ...  elif "featured_snippet" in gained_features: ...
FeatureAlerts(previous, snapshot) ==
    IF "featured_snippet" \in previous.serp_features \ snapshot.serp_features
    THEN <<Alert("lost_snippet", "critical", snapshot, 0)>>
    ELSE IF "featured_snippet" \in snapshot.serp_features \ previous.serp_features
         THEN <<Alert("gained_snippet", "info", snapshot, 0)>>
         ELSE <<>>

\* The comparisons run against the defaults of previous.get(...) when nothing
\* is stored: position 0, no feature, no competitor.
DetectAlertsFromDefaults(previous_data, snapshot) ==
    LET previous == IF previous_data = <<>> THEN [position |-> 0, serp_features |-> {}, competitors |-> <<>>] ELSE previous_data[1]
    IN RankAlerts(previous, snapshot) \o CompetitorAlerts(previous, snapshot) \o FeatureAlerts(previous, snapshot)

\* A chain of elif over the three comparisons: only the first alert is kept.
DetectAlertsFirstOnly(previous_data, snapshot) ==
    IF previous_data = <<>> THEN <<>>
    ELSE Take(RankAlerts(previous_data[1], snapshot)
              \o CompetitorAlerts(previous_data[1], snapshot)
              \o FeatureAlerts(previous_data[1], snapshot), 1)

\* _process_ranking_change, lines 166-245: the alerts list built from the stored
\* previous snapshot (a sequence of length 0 when redis.get gave nothing)
DetectAlerts(previous_data, snapshot) ==
    IF previous_data = <<>> THEN <<>>
    ELSE RankAlerts(previous_data[1], snapshot)
         \o CompetitorAlerts(previous_data[1], snapshot)
         \o FeatureAlerts(previous_data[1], snapshot)

\* backend/api/monitoring.py, line 226: change = previous_pos - current_pos
\* (positive = improvement)
ApiChange(previous_pos, current_pos) == previous_pos - current_pos

\* ------------------------------------------------------------- volatility
\* The sorted set volatility:{project}:{keyword}: a set of <<member, score>> with
\* one score per member; the member is str(position), the score the timestamp.
Zadd(zset, member, score) == {e \in zset : e[1] # member} \cup {<<member, score>>}

\* zremrangebyscore(key, 0, cutoff_time)
Zremrangebyscore(zset, lo, hi) == {e \in zset : ~(lo <= e[2] /\ e[2] <= hi)}

\* zrange(key, 0, -1): members by ascending score, ties by member; only the
\* multiset of members matters to std and mean
ZrangeMembers(zset) == {e[1] : e \in zset}

RECURSIVE Sum(_)
Sum(S) == IF S = {} THEN 0 ELSE LET x == CHOOSE y \in S : TRUE IN x + Sum(S \ {x})

RECURSIVE SumSq(_)
SumSq(S) == IF S = {} THEN 0 ELSE LET x == CHOOSE y \in S : TRUE IN x * x + SumSq(S \ {x})

\* np.std(v) / np.mean(v) > 0.3 over the members read (population std), in
\* integers: 100 * (n * sum(x^2) - sum(x)^2) > 9 * sum(x)^2
VolatilityExceeds(members) ==
    LET n == Cardinality(members)
        s == Sum(members)
    IN s > 0 /\ 100 * (n * SumSq(members) - s * s) > 9 * s * s

\* data.volatility, kept as its square in hundredths, rounded down
VolatilityPercent(members) ==
    LET n == Cardinality(members)
        s == Sum(members)
    IN (100 * (n * SumSq(members) - s * s)) \div (s * s)

\* _update_volatility_metrics, lines 282-298: the alert raised from the members read
VolatilityAlerts(members, snapshot) ==
    IF Cardinality(members) > MinVolatilitySamples /\ VolatilityExceeds(members)
    THEN <<Alert("serp_volatility", "warning", snapshot, VolatilityPercent(members))>>
    ELSE <<>>

\* ------------------------------------------------------------- state
VARIABLES
    monitored,
    history,
    volatility,
    alerts,
    now,
    websocket_connections,
    closed,
    monitoring_tasks,
    task,
    calls,
    budget,
    last,
    observed,
    delivered,
    manager

\* monitored[p]: the Redis set monitoring:{p}
\* history[p][k]: the Redis string ranking_history:{p}:{k}, <<>> when the key is absent
\* volatility[p][k]: the Redis sorted set volatility:{p}:{k}
\* alerts[p]: the Redis list alerts:{p}, newest first
\* now: the clock, in hours
\* websocket_connections: self.websocket_connections
\* closed: the connections whose transport is closed, so that a send raises
\* monitoring_tasks[p]: self.monitoring_tasks, NoTask when p is not a key
\* task[t]: the loop task t, see NoLoop
\* calls: the start_monitoring calls suspended in their sadd (alone: no other
\*        call was in flight since this one was made)
\* budget: what the bounds still allow: start_monitoring calls, loop tasks, cycles
\*         (all tasks together), failing Redis commands, closing transports,
\*         snapshots processed and clock ticks
\* last: <<>> or <<r>>, r the last run of _process_ranking_change as one step:
\*       its project, the previous_data it read, its snapshot, the alerts it raised,
\*       the members zrange gave it and the snapshots of the last 24 hours
\* observed[p][k]: the <<position, timestamp>> of the snapshots of k processed
\*       one step at a time that were at most 24 hours old at the last of them,
\*       oldest first
\* delivered[c]: the messages connection c was sent by _broadcast_to_websockets,
\*       oldest first
\* manager: the ConnectionManager of backend/api/monitoring.py and its broadcast
\*       in flight, see NoManager
vars == <<monitored, history, volatility, alerts, now, websocket_connections, closed, monitoring_tasks, task, calls, budget, last, observed, delivered, manager>>

\* A loop task: asyncio.Task(_monitor_keywords(project)).
\*   pc            the await the coroutine is suspended at ("new": not yet run)
\*   cancel        Task.cancel() was called and the CancelledError is not yet thrown
\*   failing       the Redis command awaited answers with an error
\*   results       gather's children: keyword -> <<"pending">>, <<"exc">> or <<"snap", s>>
\*   todo          results the for loop has not reached
\*   cur           <<snapshot>> being processed by _process_ranking_change
\*   pending       alerts the "for alert in alerts" loop has not sent
\*   ctx           the caller of _send_alert: "diff" (line 249) or "vol" (line 288)
\*   alert         <<alert>> being sent by _send_alert
\*   it_size, visited, disconnected, conn   the for loop of _broadcast_to_websockets
\*   stopped       stop_monitoring cancelled this task
\*   late          the task issued a write or a push after it was stopped
\*   errors        the loop's except Exception branch ran
\*   failed        keywords whose fetch was answered with the error dict in this cycle
NoLoop == [pc |-> "none", project |-> "", cancel |-> FALSE, failing |-> FALSE, results |-> <<>>, todo |-> {}, cur |-> <<>>, pending |-> <<>>, ctx |-> "diff", alert |-> <<>>, it_size |-> 0, visited |-> {}, disconnected |-> {}, conn |-> "", stopped |-> FALSE, late |-> FALSE, errors |-> FALSE, failed |-> {}]

NewTask(p) == [NoLoop EXCEPT !.pc = "new", !.project = p]

EmptyRedis ==
    /\ monitored = [p \in ProjectIds |-> {}]
    /\ history = [p \in ProjectIds |-> [k \in Keywords |-> <<>>]]
    /\ volatility = [p \in ProjectIds |-> [k \in Keywords |-> {}]]
    /\ alerts = [p \in ProjectIds |-> <<>>]
    /\ observed = [p \in ProjectIds |-> [k \in Keywords |-> <<>>]]

\* The ConnectionManager after __init__, no broadcast in flight.
\*   active_connections, user_connections   the two registries
\*   pc          "idle", or "send": broadcast is suspended in send_text
\*   idx         the index the for loop of broadcast will read next (from 0)
\*   conn        the connection of the send_text awaited
\*   registered  the active connections when the last broadcast began
\*   got         the connections the last broadcast sent the message to, in order
\*   failed      the connections whose send_text raised in the last broadcast
\*   mixed       another operation of the manager ran since the last broadcast began
\*   raised      the last broadcast raised to its caller
\*   user        the user of the send_personal_message in flight
\*   caller      the connection whose handler called send_personal_message
\*   alias       the list send_personal_message iterates is still user_connections[user]
\*   left        the connections whose handler ran disconnect
\*   disconnect_raised  the connections whose disconnect raised ValueError
\*   personal_raised    a send_personal_message raised to its caller
NoManager == [active_connections |-> <<>>, user_connections |-> <<>>, pc |-> "idle", idx |-> 0, conn |-> "",
              registered |-> {}, got |-> <<>>, failed |-> {}, mixed |-> FALSE, raised |-> FALSE,
              user |-> "", caller |-> "", alias |-> FALSE, left |-> {}, disconnect_raised |-> {}, personal_raised |-> FALSE]

NothingRunning ==
    /\ websocket_connections = {}
    /\ closed = {}
    /\ monitoring_tasks = [p \in ProjectIds |-> NoTask]
    /\ task = [t \in TaskIds |-> NoLoop]
    /\ calls = {}
    /\ last = <<>>
    /\ delivered = [c \in Sockets |-> <<>>]
    /\ manager = NoManager

\* What an earlier run of the service that monitored k1 for p1 left in Redis: the
\* keyword in monitoring:p1, its last snapshot and its volatility series.
SeedSnapshot == CheckKeywordRanking("k1", OkResponse(Serp4), 0)

SeededRedis ==
    /\ monitored = [p \in ProjectIds |-> IF p = "p1" THEN {"k1"} ELSE {}]
    /\ history = [p \in ProjectIds |-> [k \in Keywords |-> IF p = "p1" /\ k = "k1" THEN <<SeedSnapshot>> ELSE <<>>]]
    /\ volatility = [p \in ProjectIds |-> [k \in Keywords |-> IF p = "p1" /\ k = "k1" THEN {<<SeedSnapshot.position, SeedSnapshot.timestamp>>} ELSE {}]]
    /\ alerts = [p \in ProjectIds |-> <<>>]
    /\ observed = [p \in ProjectIds |-> [k \in Keywords |-> <<>>]]

\* The service after __init__ and initialize, on an empty Redis or on the Redis of
\* an earlier run.
Init ==
    /\ EmptyRedis \/ SeededRedis
    /\ NothingRunning
    /\ now = 0
    /\ budget = [starts |-> MaxStarts, tasks |-> MaxTasks, cycles |-> MaxCycles, faults |-> 0, closes |-> 0, snapshots |-> 0, ticks |-> 0, broadcasts |-> 0, messages |-> 0]

\* ------------------------------------------------------------- one step of a loop task
\* What a step of task t reads and may change.
Me(t) == [tk |-> task[t], history |-> history, volatility |-> volatility, alerts |-> alerts, conns |-> websocket_connections, budget |-> budget, delivered |-> delivered]

\* The task suspends in a Redis command: ok is the state with the command applied,
\* ko the state without it, in which the command will answer with an error.
Await(ok, ko, pc) ==
    {[ok EXCEPT !.tk.pc = pc, !.tk.failing = FALSE]}
    \cup (IF ko.budget.faults > 0 THEN {[ko EXCEPT !.tk.pc = pc, !.tk.failing = TRUE, !.budget.faults = @ - 1]} ELSE {})

\* A write or a push issued by a task that stop_monitoring has cancelled.
Writing(s) == [s EXCEPT !.tk.late = @ \/ s.tk.stopped]

\* line 108: await asyncio.sleep(check_interval)
EnterSleep(s) == {[s EXCEPT !.tk.pc = "sleep", !.tk.cur = <<>>, !.tk.results = <<>>, !.tk.todo = {}, !.tk.failed = {}]}

\* A loop without the try/except of lines 89-114: the exception ends the task.
OnExceptionEndsTask(s) == {[s EXCEPT !.tk.pc = "done", !.tk.failing = FALSE, !.tk.errors = TRUE, !.tk.alert = <<>>]}

\* lines 112-114: except Exception: print; await asyncio.sleep(5)
OnException(s) == {[s EXCEPT !.tk.pc = "errpause", !.tk.failing = FALSE, !.tk.errors = TRUE, !.tk.alert = <<>>]}

\* line 164: previous_data = await self.redis.get(history_key)
IssueGet(s) == Await(s, s, "get")

\* lines 103-105: for result in results: if isinstance(result, RankingSnapshot):
\* await self._process_ranking_change(...); the order of results is that of smembers
NextResult(s) ==
    LET snaps == {k \in s.tk.todo : s.tk.results[k][1] = "snap"}
    IN IF snaps = {} THEN EnterSleep([s EXCEPT !.tk.todo = {}])
       ELSE UNION {IssueGet([s EXCEPT !.tk.cur = <<s.tk.results[k][2]>>, !.tk.todo = @ \ {k}]) : k \in snaps}

\* lines 252-262: await self.redis.set(history_key, json.dumps({...}), expire=86400 * 30)
StoreSnapshot(hist, p, snapshot) == [hist EXCEPT ![p][snapshot.keyword] = <<snapshot>>]

StoreCurrent(s) ==
    Await([Writing(s) EXCEPT !.history = StoreSnapshot(s.history, s.tk.project, s.tk.cur[1])], Writing(s), "set")

\* lines 304-314: await self.redis.lpush(alert_key, json.dumps({...}))
LpushDropsAlert(list, alert) == list

Lpush(list, alert) == <<alert>> \o list

IssueLpush(s, alert) ==
    Await([Writing(s) EXCEPT !.tk.alert = <<alert>>, !.alerts[s.tk.project] = Lpush(@, alert)], [Writing(s) EXCEPT !.tk.alert = <<alert>>], "lpush")

\* lines 248-249: for alert in alerts: await self._send_alert(project_id, alert)
SendAlerts(s) ==
    IF s.tk.pending = <<>> THEN StoreCurrent(s)
    ELSE IssueLpush([s EXCEPT !.tk.pending = Tail(@), !.tk.ctx = "diff"], Head(s.tk.pending))

\* a trim that would keep the oldest entries of a full list
LtrimDropsNewest(list) ==
    IF Len(list) > AlertListCap THEN SubSeq(list, Len(list) - AlertListCap + 1, Len(list)) ELSE list

\* line 315: await self.redis.ltrim(alert_key, 0, 999)
Ltrim(list) == Take(list, AlertListCap)

IssueLtrim(s) ==
    Await([Writing(s) EXCEPT !.alerts[s.tk.project] = Ltrim(@)], Writing(s), "ltrim")

\* the for loop of _broadcast_to_websockets is over or was left
EndIteration(s) == [s EXCEPT !.tk.disconnected = {}, !.tk.visited = {}, !.tk.conn = "", !.tk.it_size = 0, !.tk.alert = <<>>]

\* line 346, then the return to the caller of _send_alert
BroadcastEnd(s) ==
    LET d == EndIteration([s EXCEPT !.conns = @ \ s.tk.disconnected])
    IN IF s.tk.ctx = "diff" THEN SendAlerts(d) ELSE NextResult(d)

\* line 339: the next websocket of "for websocket in self.websocket_connections";
\* a set that changed size since the loop began raises RuntimeError
BroadcastNext(s) ==
    IF Cardinality(s.conns) # s.tk.it_size THEN OnException(EndIteration(s))
    ELSE IF s.conns \ s.tk.visited = {} THEN BroadcastEnd(s)
         ELSE {[Writing(s) EXCEPT !.tk.pc = "send", !.tk.conn = c, !.tk.visited = @ \cup {c}] : c \in s.conns \ s.tk.visited}

\* lines 324-335: message = {"type": "alert", "project_id": project_id, "alert": {...}}
Message(project_id, alert) == [project_id |-> project_id, alert |-> alert]

\* lines 338-339: disconnected = set(); for websocket in self.websocket_connections
BroadcastBegin(s) ==
    BroadcastNext([s EXCEPT !.tk.it_size = Cardinality(s.conns), !.tk.visited = {}, !.tk.disconnected = {}])

\* lines 340-343: the await of send_json ends: "except:" catches whatever it
\* raised, the CancelledError of a cancelled task included
SendJsonEnded(tk, isClosed) ==
    IF tk.cancel THEN [tk EXCEPT !.cancel = FALSE, !.disconnected = @ \cup {tk.conn}]
    ELSE IF isClosed THEN [tk EXCEPT !.disconnected = @ \cup {tk.conn}]
         ELSE tk

\* lines 272-275: await self.redis.zadd(volatility_key, {str(position): timestamp})
IssueZadd(s) ==
    LET snap == s.tk.cur[1]
    IN Await([Writing(s) EXCEPT !.volatility[s.tk.project][snap.keyword] = Zadd(@, snap.position, snap.timestamp)], Writing(s), "zadd")

\* lines 278-279: await self.redis.zremrangebyscore(volatility_key, 0, cutoff_time)
IssueZrem(s, utcnow) ==
    LET snap == s.tk.cur[1]
    IN Await([Writing(s) EXCEPT !.volatility[s.tk.project][snap.keyword] = Zremrangebyscore(@, 0, utcnow - VolatilityWindow)], Writing(s), "zrem")

\* line 282: positions = await self.redis.zrange(volatility_key, 0, -1)
IssueZrange(s) == Await(s, s, "zrange")

\* lines 283-298
AfterZrange(s) ==
    LET snap == s.tk.cur[1]
        va == VolatilityAlerts(ZrangeMembers(s.volatility[s.tk.project][snap.keyword]), snap)
    IN IF va = <<>> THEN NextResult(s)
       ELSE IssueLpush([s EXCEPT !.tk.ctx = "vol"], va[1])

\* lines 90-92: a cycle begins: keywords = await self.redis.smembers(monitoring_key)
BeginCycle(s) ==
    LET b == [s EXCEPT !.tk.results = <<>>, !.tk.todo = {}, !.tk.cur = <<>>, !.tk.pending = <<>>, !.tk.failed = {}, !.budget.cycles = @ - 1]
    IN Await(b, b, "smembers")

\* ------------------------------------------------------------- the service's API
\* line 72: await self.redis.sadd(monitoring_key, *keywords)
Sadd(set, members) == set \cup members

\* A start_monitoring that creates its task without looking at the registry.
NeedsTaskAlways(p) == TRUE

\* line 75: if project_id not in self.monitoring_tasks
NeedsTask(p) == monitoring_tasks[p] = NoTask

\* asyncio runs the step of a cancelled task (its future's callback, scheduled by
\* cancel()) before any callback scheduled later: nothing else runs in between.
Urgent == \E t \in TaskIds : task[t].cancel

NextTaskId == Cardinality({t \in TaskIds : task[t].pc # "none"}) + 1

\* start_monitoring up to its await: the sadd is sent and the call suspends
StartMonitoring(p, K) ==
    /\ ~Urgent
    /\ budget.starts > 0
    /\ budget' = [budget EXCEPT !.starts = @ - 1]
    /\ monitored' = [monitored EXCEPT ![p] = Sadd(@, K)]
    /\ calls' = {[c EXCEPT !.alone = FALSE] : c \in calls} \cup {[id |-> budget.starts, project |-> p, keywords |-> K, alone |-> calls = {}]}
    /\ UNCHANGED <<history, volatility, alerts, now, websocket_connections, closed, monitoring_tasks, task, last, observed, delivered, manager>>

\* start_monitoring after its await, lines 75-77
StartMonitoringReturn(c) ==
    /\ ~Urgent
    /\ c \in calls
    /\ calls' = calls \ {c}
    /\ IF NeedsTask(c.project)
       THEN /\ budget.tasks > 0
            /\ budget' = [budget EXCEPT !.tasks = @ - 1]
            /\ task' = [task EXCEPT ![NextTaskId] = NewTask(c.project)]
            /\ monitoring_tasks' = [monitoring_tasks EXCEPT ![c.project] = NextTaskId]
       ELSE UNCHANGED <<budget, task, monitoring_tasks>>
    /\ UNCHANGED <<monitored, history, volatility, alerts, now, websocket_connections, closed, last, observed, delivered, manager>>

\* a stop_monitoring that would also delete the project's keyword set
StopMonitoringForgets(p) ==
    /\ ~Urgent
    /\ IF monitoring_tasks[p] # NoTask
       THEN /\ task' = [task EXCEPT ![monitoring_tasks[p]].cancel = TRUE, ![monitoring_tasks[p]].stopped = TRUE]
            /\ monitoring_tasks' = [monitoring_tasks EXCEPT ![p] = NoTask]
       ELSE UNCHANGED <<task, monitoring_tasks>>
    /\ monitored' = [monitored EXCEPT ![p] = {}]
    /\ UNCHANGED <<history, volatility, alerts, now, websocket_connections, closed, calls, budget, last, observed, delivered, manager>>

\* stop_monitoring, lines 81-83: it has no await
StopMonitoring(p) ==
    /\ ~Urgent
    /\ IF monitoring_tasks[p] # NoTask
       THEN /\ task' = [task EXCEPT ![monitoring_tasks[p]].cancel = TRUE, ![monitoring_tasks[p]].stopped = TRUE]
            /\ monitoring_tasks' = [monitoring_tasks EXCEPT ![p] = NoTask]
       ELSE UNCHANGED <<task, monitoring_tasks>>
    /\ UNCHANGED <<monitored, history, volatility, alerts, now, websocket_connections, closed, calls, budget, last, observed, delivered, manager>>

\* add_websocket, lines 350-351
AddWebsocket(c) ==
    /\ ~Urgent
    /\ c \notin websocket_connections
    /\ c \notin closed
    /\ websocket_connections' = websocket_connections \cup {c}
    /\ UNCHANGED <<monitored, history, volatility, alerts, now, closed, monitoring_tasks, task, calls, budget, last, observed, delivered, manager>>

\* the client goes away: the transport of c is closed
CloseTransport(c) ==
    /\ ~Urgent
    /\ c \in websocket_connections
    /\ c \notin closed
    /\ budget.closes > 0
    /\ budget' = [budget EXCEPT !.closes = @ - 1]
    /\ closed' = closed \cup {c}
    /\ UNCHANGED <<monitored, history, volatility, alerts, now, websocket_connections, monitoring_tasks, task, calls, last, observed, delivered, manager>>

\* websocket_endpoint, lines 408-409: except WebSocketDisconnect: remove_websocket
RemoveWebsocket(c) ==
    /\ ~Urgent
    /\ c \in closed
    /\ c \in websocket_connections
    /\ websocket_connections' = websocket_connections \ {c}
    /\ UNCHANGED <<monitored, history, volatility, alerts, now, closed, monitoring_tasks, task, calls, budget, last, observed, delivered, manager>>

\* ------------------------------------------------------------- the loop task
\* The step of task t ends in state s.
Becomes(t, s) ==
    /\ task' = [task EXCEPT ![t] = s.tk]
    /\ history' = s.history
    /\ volatility' = s.volatility
    /\ alerts' = s.alerts
    /\ websocket_connections' = s.conns
    /\ budget' = s.budget
    /\ delivered' = s.delivered
    /\ UNCHANGED <<monitored, now, closed, monitoring_tasks, calls, last, observed, manager>>

\* The task resumes from its await at pc with the awaited call's result.
Resumes(t, pc) ==
    /\ ~Urgent
    /\ task[t].pc = pc
    /\ ~task[t].failing

\* A new iteration of the while loop of task t.
NewCycle(t) ==
    /\ budget.cycles > 0
    /\ \E s \in BeginCycle(Me(t)) : Becomes(t, s)

\* The task runs for the first time, lines 87-92.
TaskStart(t) ==
    /\ Resumes(t, "new")
    /\ NewCycle(t)

\* lines 92-100: smembers answered; gather starts one fetch per keyword
SmembersReturn(t) ==
    /\ Resumes(t, "smembers")
    /\ LET keywords == monitored[task[t].project]
       IN IF keywords = {}
          THEN \E s \in EnterSleep(Me(t)) : Becomes(t, s)
          ELSE Becomes(t, [Me(t) EXCEPT !.tk.pc = "gather", !.tk.results = [k \in keywords |-> <<"pending">>]])

\* One child of gather ends, lines 119-157: get_serp_data answered resp or raised.
FetchResult(keyword, resp, utcnow) ==
    IF resp = RaisedResponse THEN <<"exc">> ELSE <<"snap", CheckKeywordRanking(keyword, resp, utcnow)>>

FetchReturn(t, k, resp) ==
    /\ Resumes(t, "gather")
    /\ k \in DOMAIN task[t].results
    /\ task[t].results[k] = <<"pending">>
    /\ Becomes(t, [Me(t) EXCEPT !.tk.results[k] = FetchResult(k, resp, now),
                                !.tk.failed = IF resp = MakeRequestFailed THEN @ \cup {k} ELSE @])

\* line 100: every child ended, gather returns the results
GatherReturn(t) ==
    /\ Resumes(t, "gather")
    /\ \A k \in DOMAIN task[t].results : task[t].results[k] # <<"pending">>
    /\ \E s \in NextResult([Me(t) EXCEPT !.tk.todo = DOMAIN task[t].results]) : Becomes(t, s)

\* lines 164-249: redis.get answered; the alerts are built and the first is sent
GetReturn(t) ==
    /\ Resumes(t, "get")
    /\ LET snap == task[t].cur[1]
           previous_data == history[task[t].project][snap.keyword]
       IN \E s \in SendAlerts([Me(t) EXCEPT !.tk.pending = DetectAlerts(previous_data, snap)]) : Becomes(t, s)

LpushReturn(t) ==
    /\ Resumes(t, "lpush")
    /\ \E s \in IssueLtrim(Me(t)) : Becomes(t, s)

LtrimReturn(t) ==
    /\ Resumes(t, "ltrim")
    /\ \E s \in BroadcastBegin(Me(t)) : Becomes(t, s)

\* lines 340-346: send_json ended (sent, raised or cancelled); the loop goes on
SendReturn(t) ==
    /\ task[t].pc = "send"
    /\ Urgent => task[t].cancel
    /\ LET sent == ~task[t].cancel /\ task[t].conn \notin closed
           got == IF sent THEN Append(delivered[task[t].conn], Message(task[t].project, task[t].alert[1])) ELSE delivered[task[t].conn]
       IN \E s \in BroadcastNext([Me(t) EXCEPT !.tk = SendJsonEnded(@, task[t].conn \in closed), !.delivered[task[t].conn] = got]) : Becomes(t, s)

SetReturn(t) ==
    /\ Resumes(t, "set")
    /\ \E s \in IssueZadd(Me(t)) : Becomes(t, s)

ZaddReturn(t) ==
    /\ Resumes(t, "zadd")
    /\ \E s \in IssueZrem(Me(t), now) : Becomes(t, s)

ZremReturn(t) ==
    /\ Resumes(t, "zrem")
    /\ \E s \in IssueZrange(Me(t)) : Becomes(t, s)

ZrangeReturn(t) ==
    /\ Resumes(t, "zrange")
    /\ \E s \in AfterZrange(Me(t)) : Becomes(t, s)

\* line 108 returned: the next iteration of while True
SleepReturn(t) ==
    /\ Resumes(t, "sleep")
    /\ NewCycle(t)

\* line 114 returned: the next iteration of while True
ErrPauseReturn(t) ==
    /\ Resumes(t, "errpause")
    /\ NewCycle(t)

RedisAwaits == {"smembers", "get", "lpush", "ltrim", "set", "zadd", "zrem", "zrange"}

\* The Redis command awaited raises: lines 112-114 catch it.
CommandFailed(t) ==
    /\ ~Urgent
    /\ task[t].pc \in RedisAwaits
    /\ task[t].failing
    /\ \E s \in OnException(Me(t)) : Becomes(t, s)

\* The awaits at which a CancelledError ends the task: lines 110-111 for the
\* awaits inside the try, and the sleep of line 114, which is outside it; a task
\* cancelled before its first step never runs.
CancelEnds == {"new", "smembers", "gather", "sleep", "errpause"} \cup RedisAwaits

Cancelled(t) ==
    /\ task[t].cancel
    /\ task[t].pc \in CancelEnds
    /\ Becomes(t, [Me(t) EXCEPT !.tk.pc = "done", !.tk.cancel = FALSE, !.tk.failing = FALSE])

\* The steps of the loop tasks that no Redis error is needed for.
LoopNext ==
    \/ \E t \in TaskIds : TaskStart(t)
    \/ \E t \in TaskIds : SmembersReturn(t)
    \/ \E t \in TaskIds : GatherReturn(t)
    \/ \E t \in TaskIds : GetReturn(t)
    \/ \E t \in TaskIds : LpushReturn(t)
    \/ \E t \in TaskIds : LtrimReturn(t)
    \/ \E t \in TaskIds : SendReturn(t)
    \/ \E t \in TaskIds : SetReturn(t)
    \/ \E t \in TaskIds : ZaddReturn(t)
    \/ \E t \in TaskIds : ZremReturn(t)
    \/ \E t \in TaskIds : ZrangeReturn(t)
    \/ \E t \in TaskIds : SleepReturn(t)
    \/ \E t \in TaskIds : Cancelled(t)

\* Start, stop and restart of the loops of a project with subscribers, the
\* provider answering every fetch.
Next ==
    \/ \E p \in Projects, K \in {{"k1"}, {"k2"}} : StartMonitoring(p, K)
    \/ \E c \in calls : StartMonitoringReturn(c)
    \/ \E p \in Projects : StopMonitoring(p)
    \/ \E c \in Conns : AddWebsocket(c)
    \/ \E t \in TaskIds, k \in Keywords : FetchReturn(t, k, OkResponse(Serp1))
    \/ LoopNext

Spec == Init /\ [][Next]_vars

\* One loop over two keywords, with a provider whose requests may fail or raise
\* and a Redis whose commands may fail.
FaultInit ==
    /\ EmptyRedis \/ SeededRedis
    /\ NothingRunning
    /\ now = 0
    /\ budget = [starts |-> 1, tasks |-> 1, cycles |-> MaxFaultCycles, faults |-> MaxFaults, closes |-> 0, snapshots |-> 0, ticks |-> 0, broadcasts |-> 0, messages |-> 0]

FaultNext ==
    \/ \E p \in Projects : StartMonitoring(p, {"k1", "k2"})
    \/ \E c \in calls : StartMonitoringReturn(c)
    \/ \E p \in Projects : StopMonitoring(p)
    \/ \E c \in Conns : AddWebsocket(c)
    \/ \E t \in TaskIds, k \in Keywords, resp \in Responses : FetchReturn(t, k, resp)
    \/ \E t \in TaskIds : CommandFailed(t)
    \/ \E t \in TaskIds : ErrPauseReturn(t)
    \/ LoopNext

FaultSpec == FaultInit /\ [][FaultNext]_vars

\* ------------------------------------------------------------- one snapshot at a time
\* _send_alert for each alert of a list, in order, with no websocket connected
RECURSIVE SendAll(_, _)
SendAll(list, raised) ==
    IF raised = <<>> THEN list ELSE SendAll(Ltrim(Lpush(list, Head(raised))), Tail(raised))

\* _update_volatility_metrics, lines 272-282: the series after zadd and
\* zremrangebyscore, as zrange reads it
UpdatedSeries(zset, snapshot, utcnow) ==
    Zremrangebyscore(Zadd(zset, snapshot.position, snapshot.timestamp), 0, utcnow - VolatilityWindow)

\* The snapshots of a sequence that are less than 24 hours old at utcnow.
Recent(samples, utcnow) ==
    LET InWindow(e) == e[2] > utcnow - VolatilityWindow
    IN SelectSeq(samples, InWindow)

\* _process_ranking_change(project_id, snapshot) run without interleaving, on a
\* Redis that answers every command
ProcessRankingChange(p, snapshot) ==
    LET k == snapshot.keyword
        previous_data == history[p][k]
        raised == DetectAlerts(previous_data, snapshot)
        series == UpdatedSeries(volatility[p][k], snapshot, now)
        va == VolatilityAlerts(ZrangeMembers(series), snapshot)
        window == Recent(Append(observed[p][k], <<snapshot.position, snapshot.timestamp>>), now)
    IN /\ budget.snapshots > 0
       /\ observed' = [observed EXCEPT ![p][k] = window]
       /\ budget' = [budget EXCEPT !.snapshots = @ - 1]
       /\ alerts' = [alerts EXCEPT ![p] = SendAll(SendAll(@, raised), va)]
       /\ history' = StoreSnapshot(history, p, snapshot)
       /\ volatility' = [volatility EXCEPT ![p][k] = series]
       /\ last' = <<[project |-> p, previous_data |-> previous_data, snapshot |-> snapshot, raised |-> raised \o va,
                    positions |-> ZrangeMembers(series), window |-> window]>>
       /\ UNCHANGED <<monitored, now, websocket_connections, closed, monitoring_tasks, task, calls, delivered, manager>>

\* The clock advances by d hours.
Tick(d) ==
    /\ budget.ticks > 0
    /\ budget' = [budget EXCEPT !.ticks = @ - 1]
    /\ now' = now + d
    /\ UNCHANGED <<monitored, history, volatility, alerts, websocket_connections, closed, monitoring_tasks, task, calls, last, observed, delivered, manager>>

\* line 261: Redis drops the history key 30 days after the set that wrote it.
ExpireHistory(p, k) ==
    /\ history[p][k] # <<>>
    /\ now - history[p][k][1].timestamp >= HistoryTtl
    /\ history' = [history EXCEPT ![p][k] = <<>>]
    /\ UNCHANGED <<monitored, volatility, alerts, now, websocket_connections, closed, monitoring_tasks, task, calls, budget, last, observed, delivered, manager>>

\* The positions, features and competitors of the snapshots processed.
SnapshotPositions == {0, 4, 12, 15}
SnapshotFeatures == {{}, {"featured_snippet"}}
SnapshotCompetitors == {<<>>, <<"rival.com">>}
TickSizes == {VolatilityWindow + 1, HistoryTtl}

Snapshot(keyword, position, features, competitors, utcnow) ==
    [keyword |-> keyword, timestamp |-> utcnow, position |-> position, serp_features |-> features, competitors |-> competitors]

\* The clock at the start, late enough for the Redis of earlier runs to hold
\* entries older than the history key's expiry.
Epoch == HistoryTtl + 2 * VolatilityWindow

\* The entries of a series by ascending score, ties by member.
RECURSIVE Ascending(_)
Ascending(zset) ==
    IF zset = {} THEN <<>>
    ELSE LET e == CHOOSE x \in zset : \A y \in zset : x[2] < y[2] \/ (x[2] = y[2] /\ x[1] <= y[1])
         IN <<e>> \o Ascending(zset \ {e})

\* The Redis of a project whose only keyword k1 has the last snapshot hist and
\* the volatility series zset, each entry of the series one snapshot.
RedisOf(hist, zset) ==
    /\ observed = [p \in ProjectIds |-> [k \in Keywords |-> IF p \in Projects /\ k = "k1" THEN Recent(Ascending(zset), Epoch) ELSE <<>>]]
    /\ monitored = [p \in ProjectIds |-> IF p \in Projects THEN {"k1"} ELSE {}]
    /\ history = [p \in ProjectIds |-> [k \in Keywords |-> IF p \in Projects /\ k = "k1" THEN hist ELSE <<>>]]
    /\ volatility = [p \in ProjectIds |-> [k \in Keywords |-> IF p \in Projects /\ k = "k1" THEN zset ELSE {}]]
    /\ alerts = [p \in ProjectIds |-> <<>>]

\* A keyword last checked more than 30 days ago: its history key has expired,
\* its volatility series still holds the positions of those days.
StaleSeries == {<<x, Epoch - HistoryTtl - 1>> : x \in (1..10) \cup {40}}

\* A keyword checked an hour ago at position 15, holding the featured snippet.
WarmSnapshot == Snapshot("k1", 15, {"featured_snippet"}, <<>>, Epoch - 1)

\* A keyword whose position moved at every check of the last hours.
BusySeries == {<<x, Epoch - 1>> : x \in (2..10) \cup {40}}
BusySnapshot == Snapshot("k1", 40, {}, <<"rival.com">>, Epoch - 1)

\* The same keyword one check earlier: nine positions in the series.
NineSeries == {<<x, Epoch - 1>> : x \in (2..9) \cup {40}}

ProcessInit ==
    /\ \/ RedisOf(<<>>, {})
       \/ RedisOf(<<>>, StaleSeries)
       \/ RedisOf(<<WarmSnapshot>>, {<<WarmSnapshot.position, WarmSnapshot.timestamp>>})
       \/ RedisOf(<<BusySnapshot>>, BusySeries)
       \/ RedisOf(<<BusySnapshot>>, NineSeries)
    /\ NothingRunning
    /\ now = Epoch
    /\ budget = [starts |-> 0, tasks |-> 0, cycles |-> 0, faults |-> 0, closes |-> 0, snapshots |-> MaxSnapshots, ticks |-> MaxTicks, broadcasts |-> 0, messages |-> 0]

ProcessNext ==
    \/ \E p \in Projects, pos \in SnapshotPositions, f \in SnapshotFeatures, c \in SnapshotCompetitors :
           ProcessRankingChange(p, Snapshot("k1", pos, f, c, now))
    \/ \E d \in TickSizes : Tick(d)
    \/ \E p \in Projects, k \in Keywords : ExpireHistory(p, k)

ProcessSpec == ProcessInit /\ [][ProcessNext]_vars

\* ------------------------------------------------------------- a full alert list
\* The alert that was raised i hours before the start, a rank drop of k1.
OldAlert(i) ==
    [type |-> "rank_drop", severity |-> DropSeverity(RankDropThreshold), keyword |-> "k1", change |-> RankDropThreshold, timestamp |-> Epoch - i]

\* The list alerts:{project_id} after n such alerts, the latest at the head.
OldAlerts(n) == [i \in 1..n |-> OldAlert(i)]

\* Snapshots of k1 are processed one at a time for a project whose alert list
\* is full, or one entry short of it.
AlertInit ==
    /\ observed = [p \in ProjectIds |-> [k \in Keywords |-> IF p \in Projects /\ k = "k1" THEN <<<<WarmSnapshot.position, WarmSnapshot.timestamp>>>> ELSE <<>>]]
    /\ monitored = [p \in ProjectIds |-> IF p \in Projects THEN {"k1"} ELSE {}]
    /\ history = [p \in ProjectIds |-> [k \in Keywords |-> IF p \in Projects /\ k = "k1" THEN <<WarmSnapshot>> ELSE <<>>]]
    /\ volatility = [p \in ProjectIds |-> [k \in Keywords |-> IF p \in Projects /\ k = "k1" THEN {<<WarmSnapshot.position, WarmSnapshot.timestamp>>} ELSE {}]]
    /\ \E n \in {AlertListCap - 1, AlertListCap} : alerts = [p \in ProjectIds |-> IF p \in Projects THEN OldAlerts(n) ELSE <<>>]
    /\ NothingRunning
    /\ now = Epoch
    /\ budget = [starts |-> 0, tasks |-> 0, cycles |-> 0, faults |-> 0, closes |-> 0, snapshots |-> MaxSnapshots, ticks |-> 0, broadcasts |-> 0, messages |-> 0]

AlertNext ==
    \E p \in Projects, pos \in SnapshotPositions, f \in SnapshotFeatures, c \in SnapshotCompetitors :
        ProcessRankingChange(p, Snapshot("k1", pos, f, c, now))

AlertSpec == AlertInit /\ [][AlertNext]_vars

\* ------------------------------------------------------------- the pushes
\* One loop over one keyword whose first snapshot raises an alert, with
\* connections that are opened for two projects, close and are removed while the
\* cycle runs.
PushInit ==
    /\ SeededRedis
    /\ NothingRunning
    /\ now = 0
    /\ budget = [starts |-> 1, tasks |-> 1, cycles |-> 1, faults |-> 0, closes |-> MaxCloses, snapshots |-> 0, ticks |-> 0, broadcasts |-> 0, messages |-> 0]

PushNext ==
    \/ \E p \in Projects : StartMonitoring(p, {"k1"})
    \/ \E c \in calls : StartMonitoringReturn(c)
    \/ \E c \in Sockets : AddWebsocket(c)
    \/ \E c \in Sockets : CloseTransport(c)
    \/ \E c \in Sockets : RemoveWebsocket(c)
    \/ \E t \in TaskIds, k \in Keywords : FetchReturn(t, k, OkResponse(Serp1))
    \/ \E t \in TaskIds : TaskStart(t)
    \/ \E t \in TaskIds : SmembersReturn(t)
    \/ \E t \in TaskIds : GatherReturn(t)
    \/ \E t \in TaskIds : GetReturn(t)
    \/ \E t \in TaskIds : LpushReturn(t)
    \/ \E t \in TaskIds : LtrimReturn(t)
    \/ \E t \in TaskIds : SendReturn(t)
    \/ \E t \in TaskIds : SetReturn(t)
    \/ \E t \in TaskIds : ZaddReturn(t)
    \/ \E t \in TaskIds : ZremReturn(t)
    \/ \E t \in TaskIds : ZrangeReturn(t)

PushSpec == PushInit /\ [][PushNext]_vars

\* ------------------------------------------------------------- two projects
\* Two projects with a stored snapshot of k1 each, monitored at the same time by
\* one loop each, with two connections that were registered before and of which
\* one may close.
PairInit ==
    /\ monitored = [p \in ProjectIds |-> {"k1"}]
    /\ history = [p \in ProjectIds |-> [k \in Keywords |-> IF k = "k1" THEN <<SeedSnapshot>> ELSE <<>>]]
    /\ volatility = [p \in ProjectIds |-> [k \in Keywords |-> IF k = "k1" THEN {<<SeedSnapshot.position, SeedSnapshot.timestamp>>} ELSE {}]]
    /\ alerts = [p \in ProjectIds |-> <<>>]
    /\ observed = [p \in ProjectIds |-> [k \in Keywords |-> <<>>]]
    /\ websocket_connections = {"w1", "w2"}
    /\ closed = {}
    /\ monitoring_tasks = [p \in ProjectIds |-> NoTask]
    /\ task = [t \in TaskIds |-> NoLoop]
    /\ calls = {}
    /\ last = <<>>
    /\ delivered = [c \in Sockets |-> <<>>]
    /\ manager = NoManager
    /\ now = 0
    /\ budget = [starts |-> 2, tasks |-> 2, cycles |-> 2, faults |-> 0, closes |-> MaxCloses, snapshots |-> 0, ticks |-> 0, broadcasts |-> 0, messages |-> 0]

PairNext ==
    \/ \E p \in ProjectIds : StartMonitoring(p, {"k1"})
    \/ \E c \in calls : StartMonitoringReturn(c)
    \/ \E c \in Sockets : CloseTransport(c)
    \/ \E t \in TaskIds, k \in Keywords : FetchReturn(t, k, OkResponse(Serp1))
    \/ \E t \in TaskIds : TaskStart(t)
    \/ \E t \in TaskIds : SmembersReturn(t)
    \/ \E t \in TaskIds : GatherReturn(t)
    \/ \E t \in TaskIds : GetReturn(t)
    \/ \E t \in TaskIds : LpushReturn(t)
    \/ \E t \in TaskIds : LtrimReturn(t)
    \/ \E t \in TaskIds : SendReturn(t)
    \/ \E t \in TaskIds : SetReturn(t)
    \/ \E t \in TaskIds : ZaddReturn(t)
    \/ \E t \in TaskIds : ZremReturn(t)
    \/ \E t \in TaskIds : ZrangeReturn(t)

PairSpec == PairInit /\ [][PairNext]_vars

\* The same two projects, either of which may be stopped while the loops run.
StopNext ==
    \/ PairNext
    \/ \E p \in ProjectIds : StopMonitoring(p)
    \/ \E t \in TaskIds : Cancelled(t)

StopSpec == PairInit /\ [][StopNext]_vars

\* ------------------------------------------------------------- the fetches of a cycle
\* A project that tracks eleven keywords.
ManyKeywords == {"k1", "k2", "k3", "k4", "k5", "k6", "k7", "k8", "k9", "k10", "k11"}

\* One cycle of one loop over eleven keywords while the provider is down: every
\* call of get_serp_data raises, so no snapshot is processed.
FetchInit ==
    /\ EmptyRedis
    /\ NothingRunning
    /\ now = 0
    /\ budget = [starts |-> 1, tasks |-> 1, cycles |-> 1, faults |-> 0, closes |-> 0, snapshots |-> 0, ticks |-> 0, broadcasts |-> 0, messages |-> 0]

FetchNext ==
    \/ \E p \in Projects : StartMonitoring(p, ManyKeywords)
    \/ \E c \in calls : StartMonitoringReturn(c)
    \/ \E t \in TaskIds : TaskStart(t)
    \/ \E t \in TaskIds : SmembersReturn(t)
    \/ \E t \in TaskIds, k \in ManyKeywords : FetchReturn(t, k, RaisedResponse)
    \/ \E t \in TaskIds : GatherReturn(t)

FetchSpec == FetchInit /\ [][FetchNext]_vars

\* ------------------------------------------------------------- ConnectionManager
\* list.remove(x): the list without its first x
RECURSIVE Remove(_, _)
Remove(list, x) ==
    IF list = <<>> THEN <<>>
    ELSE IF Head(list) = x THEN Tail(list)
         ELSE <<Head(list)>> \o Remove(Tail(list), x)

\* backend/api/monitoring.py, lines 127-129: user_connections[user_id].append(websocket),
\* after the key was given an empty list if it was missing
AppendFor(user_connections, user_id, websocket) ==
    [u \in DOMAIN user_connections \cup {user_id} |->
        IF u = user_id
        THEN Append(IF u \in DOMAIN user_connections THEN user_connections[u] ELSE <<>>, websocket)
        ELSE user_connections[u]]

\* connect(websocket, user_id) after its await of websocket.accept(), lines 125-129
ManagerConnect(c) ==
    /\ c \notin Range(manager.active_connections)
    /\ c \notin closed
    /\ manager' = [manager EXCEPT !.active_connections = Append(@, c),
                                  !.user_connections = AppendFor(@, UserOf[c], c),
                                  !.mixed = TRUE]
    /\ UNCHANGED <<monitored, history, volatility, alerts, now, websocket_connections, closed, monitoring_tasks, task, calls, budget, last, observed, delivered>>

\* the client of a registered connection goes away: its transport is closed
ManagerClose(c) ==
    /\ c \in Range(manager.active_connections)
    /\ c \notin closed
    /\ budget.closes > 0
    /\ budget' = [budget EXCEPT !.closes = @ - 1]
    /\ closed' = closed \cup {c}
    /\ UNCHANGED <<monitored, history, volatility, alerts, now, websocket_connections, monitoring_tasks, task, calls, last, observed, delivered, manager>>

\* line 150: the for loop of broadcast reads active_connections[idx], as the list
\* is now, and suspends in send_text; past the end of the list, broadcast returns
BroadcastStep(m) ==
    IF m.idx >= Len(m.active_connections) THEN [m EXCEPT !.pc = "idle", !.conn = "", !.idx = 0]
    ELSE [m EXCEPT !.pc = "send", !.conn = m.active_connections[m.idx + 1], !.idx = @ + 1]

\* broadcast(message) is called, lines 149-152
ManagerBroadcast ==
    /\ manager.pc = "idle"
    /\ budget.broadcasts > 0
    /\ budget' = [budget EXCEPT !.broadcasts = @ - 1]
    /\ manager' = BroadcastStep([manager EXCEPT !.idx = 0, !.registered = Range(manager.active_connections),
                                                !.got = <<>>, !.failed = {}, !.mixed = FALSE, !.raised = FALSE])
    /\ UNCHANGED <<monitored, history, volatility, alerts, now, websocket_connections, closed, monitoring_tasks, task, calls, last, observed, delivered>>

\* lines 151-155: send_text ended; a send that raised is caught by "except:",
\* which removes the connection from the list the for loop is reading
SendTextEnded(m, isClosed) ==
    IF ~isClosed THEN BroadcastStep([m EXCEPT !.got = Append(@, m.conn)])
    ELSE IF m.conn \in Range(m.active_connections)
         THEN BroadcastStep([m EXCEPT !.failed = @ \cup {m.conn}, !.active_connections = Remove(@, m.conn)])
         ELSE [m EXCEPT !.failed = @ \cup {m.conn}, !.raised = TRUE, !.pc = "idle", !.conn = "", !.idx = 0]

SendTextReturn ==
    /\ manager.pc = "send"
    /\ manager' = SendTextEnded(manager, manager.conn \in closed)
    /\ UNCHANGED <<monitored, history, volatility, alerts, now, websocket_connections, closed, monitoring_tasks, task, calls, budget, last, observed, delivered>>

\* del self.user_connections[user_id]
DeleteKey(user_connections, user_id) ==
    IF DOMAIN user_connections \subseteq {user_id} THEN <<>>
    ELSE [u \in DOMAIN user_connections \ {user_id} |-> user_connections[u]]

\* disconnect(websocket, user_id), lines 131-136; list.remove raises ValueError
\* when the connection is not in the list
Disconnect(m, c) ==
    LET u == UserOf[c]
        gone == [m EXCEPT !.left = @ \cup {c}, !.mixed = TRUE]
        failed == [gone EXCEPT !.disconnect_raised = @ \cup {c}]
    IN IF c \notin Range(m.active_connections) THEN failed
       ELSE LET a == [gone EXCEPT !.active_connections = Remove(@, c)]
            IN IF u \notin DOMAIN m.user_connections THEN a
               ELSE IF c \notin Range(m.user_connections[u]) THEN [a EXCEPT !.disconnect_raised = @ \cup {c}]
               ELSE IF Remove(m.user_connections[u], c) # <<>> THEN [a EXCEPT !.user_connections[u] = Remove(@, c)]
               ELSE [a EXCEPT !.user_connections = DeleteKey(@, u), !.alias = @ /\ m.user # u]

\* websocket_endpoint, lines 603-604: receive_text raised WebSocketDisconnect in
\* the handler of a connection whose client went away
ManagerDisconnect(c) ==
    /\ c \in closed
    /\ c \notin manager.left
    /\ manager.pc = "send_personal" => c # manager.caller
    /\ manager' = Disconnect(manager, c)
    /\ UNCHANGED <<monitored, history, volatility, alerts, now, websocket_connections, closed, monitoring_tasks, task, calls, budget, last, observed, delivered>>

\* line 140: the for loop of send_personal_message reads the next connection of
\* the list it began with and suspends in send_text; a list that disconnect
\* emptied and deleted from user_connections has no next connection
PersonalStep(m) ==
    LET list == IF m.alias THEN m.user_connections[m.user] ELSE <<>>
    IN IF m.idx >= Len(list) THEN [m EXCEPT !.pc = "idle", !.conn = "", !.idx = 0, !.user = "", !.caller = "", !.alias = FALSE]
       ELSE [m EXCEPT !.pc = "send_personal", !.conn = list[m.idx + 1], !.idx = @ + 1]

\* websocket_endpoint, lines 597-601: the handler of c received a text and calls
\* send_personal_message(f"Echo: {data}", user_id), lines 138-147
ManagerPersonal(c) ==
    /\ manager.pc = "idle"
    /\ c \in Range(manager.active_connections)
    /\ c \notin closed
    /\ budget.messages > 0
    /\ budget' = [budget EXCEPT !.messages = @ - 1]
    /\ manager' = IF UserOf[c] \in DOMAIN manager.user_connections
                  THEN PersonalStep([manager EXCEPT !.idx = 0, !.user = UserOf[c], !.caller = c, !.alias = TRUE, !.mixed = TRUE])
                  ELSE [manager EXCEPT !.mixed = TRUE]
    /\ UNCHANGED <<monitored, history, volatility, alerts, now, websocket_connections, closed, monitoring_tasks, task, calls, last, observed, delivered>>

\* lines 142-147: send_text ended; "except:" removes the connection from the
\* user's list as it is now, then from active_connections if it is there
SendPersonalEnded(m, isClosed) ==
    LET raised == [m EXCEPT !.personal_raised = TRUE, !.pc = "idle", !.conn = "", !.idx = 0, !.user = "", !.caller = "", !.alias = FALSE]
    IN IF ~isClosed THEN PersonalStep(m)
       ELSE IF m.user \notin DOMAIN m.user_connections THEN raised
       ELSE IF m.conn \notin Range(m.user_connections[m.user]) THEN raised
       ELSE PersonalStep([m EXCEPT !.user_connections[m.user] = Remove(@, m.conn),
                                   !.active_connections = IF m.conn \in Range(@) THEN Remove(@, m.conn) ELSE @])

SendPersonalReturn ==
    /\ manager.pc = "send_personal"
    /\ manager' = SendPersonalEnded(manager, manager.conn \in closed)
    /\ UNCHANGED <<monitored, history, volatility, alerts, now, websocket_connections, closed, monitoring_tasks, task, calls, budget, last, observed, delivered>>

\* The ConnectionManager alone: connections are accepted, clients go away,
\* handlers echo and disconnect, and messages are broadcast.
ManagerInit ==
    /\ EmptyRedis
    /\ NothingRunning
    /\ now = 0
    /\ budget = [starts |-> 0, tasks |-> 0, cycles |-> 0, faults |-> 0, closes |-> MaxCloses, snapshots |-> 0, ticks |-> 0, broadcasts |-> MaxBroadcasts, messages |-> MaxMessages]

ManagerNext ==
    \/ \E c \in ManagerConns : ManagerConnect(c)
    \/ \E c \in ManagerConns : ManagerClose(c)
    \/ \E c \in ManagerConns : ManagerDisconnect(c)
    \/ \E c \in ManagerConns : ManagerPersonal(c)
    \/ ManagerBroadcast
    \/ SendTextReturn
    \/ SendPersonalReturn

ManagerSpec == ManagerInit /\ [][ManagerNext]_vars

\* ------------------------------------------------------------- properties
\* A loop that can still fetch, store a snapshot or raise an alert.
Alive(t) == task[t].pc \notin {"none", "done"} /\ ~task[t].cancel

LoopsOf(p) == {t \in TaskIds : task[t].project = p /\ Alive(t)}

\* C1: whatever start_monitoring and stop_monitoring calls were made, at most one
\* monitoring loop is alive for a project.
C1_AtMostOneLoop == \A p \in Projects : Cardinality(LoopsOf(p)) <= 1

\* C2: once stop_monitoring has returned, the stopped loop issues no snapshot
\* write, no alert write and no alert push.
C2_NoWriteAfterStop == \A t \in TaskIds : ~task[t].late

\* C3: a stopped loop exits at the await it is cancelled at: once the
\* CancelledError was thrown into it, the task is over and begins no other cycle.
C3_StoppedLoopExits == \A t \in TaskIds : (task[t].stopped /\ ~task[t].cancel) => task[t].pc = "done"

\* C4: start_monitoring returning for a project that has a registered loop
\* creates no task and leaves the registered task and every loop as they are.
C4_StartIdempotent ==
    [][\A c \in calls : (c \notin calls' /\ monitoring_tasks[c.project] # NoTask) => (monitoring_tasks' = monitoring_tasks /\ task' = task /\ budget'.tasks = budget.tasks)]_vars

\* C4 witness: two start_monitoring calls returned, the second on the running
\* project: one task only was created and it is still the registered loop.
C4_Witness ==
    /\ calls = {}
    /\ MaxStarts - budget.starts >= 2
    /\ MaxTasks - budget.tasks = 1
    /\ monitoring_tasks["p1"] = 1
    /\ ~task[1].stopped
    /\ task[1].pc \notin {"none", "new", "done"}

\* C5: when start_monitoring(p, K) returns on a running project, with no other
\* call in flight, the keyword set the loop's next cycles read is exactly K.
C5_StartReplacesKeywords ==
    [][\A c \in calls : (c \notin calls' /\ c.alone /\ monitoring_tasks[c.project] # NoTask) => monitored'[c.project] = c.keywords]_vars

\* C6: when the cycle ends in the loop's exception handler, no keyword whose
\* fetch succeeded in that cycle is left unprocessed.
C6_FailureIsolated ==
    \A t \in TaskIds : task[t].pc = "errpause" => \A k \in task[t].todo : task[t].results[k][1] # "snap"

\* C7: no snapshot is stored and no alert is raised for a keyword whose fetch
\* failed in the cycle.
C7_FailedFetchSkipped ==
    \A t \in TaskIds : (task[t].pc \in {"lpush", "set"} /\ ~task[t].failing) => task[t].cur[1].keyword \notin task[t].failed

\* C8: a loop task ends only when stop_monitoring cancelled it: an exception in
\* a cycle leaves the loop running.
C8_OnlyStopEndsLoop == \A t \in TaskIds : task[t].pc = "done" => task[t].stopped

\* C8 witness: a loop that caught an exception is fetching in a later cycle.
C8_Witness == \E t \in TaskIds : task[t].errors /\ ~task[t].stopped /\ task[t].pc = "gather"

\* C9: the first snapshot of a keyword, processed when Redis holds no previous
\* snapshot for it, raises no alert of any kind and is stored as the baseline,
\* its position being the only sample left in the 24-hour volatility series.
C9_ColdStartNoAlerts ==
    \A r \in Range(last) : r.previous_data = <<>> =>
        /\ r.raised = <<>>
        /\ \/ history[r.project][r.snapshot.keyword] = <<r.snapshot>>
           \/ history[r.project][r.snapshot.keyword] = <<>> /\ now - r.snapshot.timestamp >= HistoryTtl
        /\ ZrangeMembers(volatility[r.project][r.snapshot.keyword]) = {r.snapshot.position}

\* C9 witness: a snapshot at position 4 was processed for a keyword whose history
\* key had expired while its series still held eleven old, volatile positions.
C9_Witness ==
    /\ budget.snapshots = MaxSnapshots - 1
    /\ budget.ticks = MaxTicks
    /\ last # <<>>
    /\ last[1].previous_data = <<>>
    /\ last[1].snapshot.position = 4
    /\ history["p1"]["k1"] = <<last[1].snapshot>>
    /\ volatility["p1"]["k1"] = {<<4, now>>}
    /\ alerts["p1"] = <<>>

\* C10: a rank alert carries the position delta as previous position minus
\* current position, the delta of the alerts API, so that a move from 15 to 12
\* is reported as an improvement of 3.
C10_ChangeIsPreviousMinusCurrent ==
    \A r \in Range(last) : \A i \in DOMAIN r.raised :
        (r.previous_data # <<>> /\ r.previous_data[1].position > 0 /\ r.snapshot.position > 0
         /\ r.raised[i].type \in {"rank_drop", "rank_gain"}) =>
            r.raised[i].change = ApiChange(r.previous_data[1].position, r.snapshot.position)

\* The runs of _process_ranking_change that compared their snapshot with a
\* stored previous one.
Compared == {r \in Range(last) : r.previous_data # <<>>}

RaisedTypes(r) == {r.raised[i].type : i \in DOMAIN r.raised}

\* C11: a transition in which the keyword was not found on either side (position
\* absent, stored as 0) raises neither a rank_drop nor a rank_gain alert.
C11_AbsentPositionNoRankAlert ==
    \A r \in Compared :
        (r.previous_data[1].position = 0 \/ r.snapshot.position = 0) =>
            RaisedTypes(r) \cap {"rank_drop", "rank_gain"} = {}

\* A rank is better the nearer it is to 1; a keyword that is not found (0) has
\* the worst rank of all.
Worsened(previous_pos, current_pos) ==
    previous_pos # 0 /\ (current_pos = 0 \/ current_pos > previous_pos)

Improved(previous_pos, current_pos) ==
    current_pos # 0 /\ (previous_pos = 0 \/ current_pos < previous_pos)

\* C12: a transition raises at most one of rank_drop and rank_gain, a rank_drop
\* only when the position worsened and a rank_gain only when it improved.
C12_DropGainExclusive ==
    \A r \in Compared :
        /\ ~({"rank_drop", "rank_gain"} \subseteq RaisedTypes(r))
        /\ "rank_drop" \in RaisedTypes(r) => Worsened(r.previous_data[1].position, r.snapshot.position)
        /\ "rank_gain" \in RaisedTypes(r) => Improved(r.previous_data[1].position, r.snapshot.position)

\* C13: between two found positions, the severity of a rank_drop alert is info
\* for a drop of 1 to 4 positions, warning for 5 to 9, critical for 10 or more.
C13_DropSeverityTable ==
    \A r \in Compared : \A i \in DOMAIN r.raised :
        (r.raised[i].type = "rank_drop" /\ r.previous_data[1].position > 0 /\ r.snapshot.position > 0) =>
            LET drop == r.snapshot.position - r.previous_data[1].position
            IN r.raised[i].severity = (IF drop <= 4 THEN "info" ELSE IF drop <= 9 THEN "warning" ELSE "critical")

\* The alerts of a run that are lost_snippet alerts.
LostSnippetAlerts(r) == {i \in DOMAIN r.raised : r.raised[i].type = "lost_snippet"}

\* C14: when featured_snippet is in the previous snapshot's features and not in
\* the current one, the run raises exactly one lost_snippet alert, of severity
\* critical, whatever else changed in the transition.
C14_LostSnippetOneCritical ==
    \A r \in Compared :
        "featured_snippet" \in r.previous_data[1].serp_features \ r.snapshot.serp_features =>
            /\ Cardinality(LostSnippetAlerts(r)) = 1
            /\ \A i \in LostSnippetAlerts(r) : r.raised[i].severity = "critical"

\* C14 witness: the snippet was lost in a transition that also moved the keyword
\* from 15 to 4 and brought a new competitor: the rank_gain, the new_competitor
\* and the lost_snippet alert were raised and head the project's alert list.
C14_Witness ==
    /\ last # <<>>
    /\ last[1].previous_data # <<>>
    /\ last[1].previous_data[1].position = 15
    /\ "featured_snippet" \in last[1].previous_data[1].serp_features
    /\ last[1].snapshot.position = 4
    /\ last[1].snapshot.serp_features = {}
    /\ RaisedTypes(last[1]) = {"rank_gain", "new_competitor", "lost_snippet"}
    /\ Len(alerts["p1"]) >= 3
    /\ alerts["p1"][1].type = "lost_snippet"
    /\ alerts["p1"][1].severity = "critical"

\* The positions of the snapshots of a window in which the keyword was found.
Found(window) ==
    LET IsFound(e) == e[1] > 0
        f == SelectSeq(window, IsFound)
    IN [i \in DOMAIN f |-> f[i][1]]

\* C15: over a window of found, pairwise different positions, a volatility alert
\* is raised exactly when the window holds at least 10 samples and their
\* stddev/mean exceeds 0.30.
C15_MinimumSamples ==
    \A r \in Range(last) :
        LET samples == Found(r.window)
        IN (Len(samples) = Len(r.window) /\ Cardinality(Range(samples)) = Len(samples)) =>
               ("serp_volatility" \in RaisedTypes(r) <=> (Len(samples) >= 10 /\ VolatilityExceeds(Range(samples))))

\* C16: the positions volatility is computed over are the positions of all the
\* snapshots of the last 24 hours in which the keyword was found, one sample for
\* each snapshot.
C16_WindowIsAllSnapshots ==
    \A r \in Range(last) :
        /\ r.positions = Range(Found(r.window))
        /\ Cardinality(r.positions) = Len(Found(r.window))

\* The magnitude of the second alert exceeds that of the first by more than
\* half (volatility is kept squared).
Escalates(first, second) ==
    IF first.type = "serp_volatility" THEN 4 * second.change > 9 * first.change
    ELSE 2 * Max({second.change, -second.change}) > 3 * Max({first.change, -first.change})

\* C17: of two alerts of the same keyword and type persisted in a project's list
\* less than one hour apart, the later one escalates the earlier one; stated for
\* the alerts that are not rank alerts, whose magnitude does not depend on how an
\* absent position is counted.
C17_Cooldown ==
    \A p \in Projects : \A i, j \in DOMAIN alerts[p] :
        (/\ i < j
         /\ alerts[p][i].keyword = alerts[p][j].keyword
         /\ alerts[p][i].type = alerts[p][j].type
         /\ alerts[p][i].type \notin {"rank_drop", "rank_gain"}
         /\ alerts[p][i].timestamp - alerts[p][j].timestamp < 1) => Escalates(alerts[p][j], alerts[p][i])

\* C18: once a snapshot of a keyword has been stored, a previous snapshot of the
\* keyword is stored at every later time.
C18_PreviousAlwaysAvailable ==
    \A r \in Range(last) : history[r.project][r.snapshot.keyword] # <<>>

\* C20: every message a connection was sent is an alert of the project the
\* connection was opened for.
C20_PushOnlyToSubscribers ==
    \A c \in Sockets : \A i \in DOMAIN delivered[c] : delivered[c][i].project_id = PathProject[c]

\* How many times connection c is in the list got.
Times(got, c) == Cardinality({i \in DOMAIN got : got[i] = c})

\* C19: when a broadcast has returned and no other operation of the manager ran
\* since it began, it has
\* raised nothing, every connection that was registered when it began and whose
\* send did not fail was sent the message exactly once, and the registry holds
\* those connections and no connection whose send failed.
C19_FailedSendIsolated ==
    (manager.pc = "idle" /\ manager.registered # {} /\ ~manager.mixed) =>
        /\ ~manager.raised
        /\ \A c \in manager.registered \ manager.failed : Times(manager.got, c) = 1
        /\ Range(manager.active_connections) = manager.registered \ manager.failed

\* C21: a subscribe or unsubscribe that runs while a broadcast is suspended in a
\* send never makes the broadcast raise. In PushSpec no fetch and no Redis
\* command fails, so the loop's except Exception branch can only have been
\* entered by the iteration of websocket_connections in the broadcast.
C21_BroadcastNeverRaises ==
    \A t \in TaskIds : ~task[t].errors

\* The list old is the tail of the list new: nothing of old was dropped or moved.
IsSuffix(old, new) ==
    /\ Len(old) <= Len(new)
    /\ SubSeq(new, Len(new) - Len(old) + 1, Len(new)) = old

\* C22: whenever a send of an alert to a connection ends, delivered or failed,
\* the alert is in the project's alert list before and after the step, and the
\* step drops nothing from the list.
C22_PersistBeforePush ==
    [][\A t \in TaskIds : (task[t].pc = "send" /\ task'[t] # task[t]) =>
           /\ task[t].alert[1] \in Range(alerts[task[t].project])
           /\ task[t].alert[1] \in Range(alerts'[task[t].project])
           /\ IsSuffix(alerts[task[t].project], alerts'[task[t].project])]_vars

\* C22 witness: in one broadcast the send to a closed connection has failed, the
\* message has been delivered to another connection and a third send is in
\* flight; the alert is at the head of the project's list.
C22_Witness ==
    \E t \in TaskIds :
        /\ task[t].pc = "send"
        /\ task[t].disconnected # {}
        /\ \E c \in Sockets \ task[t].disconnected :
               /\ c # task[t].conn
               /\ delivered[c] = <<Message(task[t].project, task[t].alert[1])>>
        /\ alerts[task[t].project] # <<>>
        /\ Head(alerts[task[t].project]) = task[t].alert[1]

\* lines 94-100: the children of gather that have not ended, each suspended in
\* its call of get_serp_data
InFlight(t) ==
    IF task[t].pc = "gather" THEN {k \in DOMAIN task[t].results : task[t].results[k] = <<"pending">>} ELSE {}

\* C23: within one cycle no more than 10 keyword fetches, the largest default of
\* the concurrency limit, are in flight at the same time.
C23_BoundedFetches ==
    \A t \in TaskIds : Cardinality(InFlight(t)) <= 10

\* C24: with two projects monitored at the same time, the cycle of neither
\* project fails. In PairSpec no fetch and no Redis command fails and no
\* connection is added or removed by a client, so a loop's except Exception
\* branch can only have been entered through a step of the other project's loop.
C24_ProjectsIsolated ==
    \A p \in ProjectIds : \A t \in TaskIds : task[t].project = p => ~task[t].errors

\* C25: a transition between two consecutive snapshots of a keyword is alerted
\* at most once: a project's alert list never holds two alerts of the same
\* keyword, type and change. In FaultSpec a keyword is found at position 1 or
\* not found, after a stored position of 4 at most, so that its position moves
\* by the alert threshold in one transition at most.
C25_TransitionAlertedOnce ==
    \A p \in Projects : \A i, j \in DOMAIN alerts[p] :
        (/\ i < j
         /\ alerts[p][i].keyword = alerts[p][j].keyword
         /\ alerts[p][i].type = alerts[p][j].type) => alerts[p][i].change # alerts[p][j].change

\* The connections in the list of some user of user_connections.
Listed(m) == UNION {Range(m.user_connections[u]) : u \in DOMAIN m.user_connections}

\* C26: when no operation of the ConnectionManager is in flight, a connection is
\* in active_connections exactly when it is in the list of some user, every
\* connection is there once, and no user has an empty list.
C26_IndexesAgree ==
    manager.pc = "idle" =>
        /\ Range(manager.active_connections) = Listed(manager)
        /\ Len(manager.active_connections) = Cardinality(Range(manager.active_connections))
        /\ \A u \in DOMAIN manager.user_connections :
               /\ manager.user_connections[u] # <<>>
               /\ Len(manager.user_connections[u]) = Cardinality(Range(manager.user_connections[u]))

\* C27: the disconnect of a connection's handler does not raise, and once it ran
\* the connection is in neither index of the registry.
C27_DisconnectSafe ==
    \A c \in manager.left :
        /\ c \notin manager.disconnect_raised
        /\ c \notin Range(manager.active_connections)
        /\ c \notin Listed(manager)

\* C28: a step removes a connection from websocket_connections only when the
\* transport of the connection is closed.
C28_OnlyClosedRemoved ==
    [][(websocket_connections \ websocket_connections') \subseteq closed]_vars

\* C29: a call of stop_monitoring for a project leaves the stored keyword sets,
\* snapshots, series and alert lists and the registered connections as they
\* are, leaves the other projects' entries and every task but the project's
\* registered one as they are, leaves the project with no registered task, and
\* changes nothing at all when the project has no registered task.
C29_StopChangesOnlyTaskEntry ==
    [][\A p \in ProjectIds : StopMonitoring(p) =>
           /\ monitored' = monitored
           /\ history' = history
           /\ volatility' = volatility
           /\ alerts' = alerts
           /\ websocket_connections' = websocket_connections
           /\ monitoring_tasks'[p] = NoTask
           /\ \A q \in ProjectIds \ {p} : monitoring_tasks'[q] = monitoring_tasks[q]
           /\ \A t \in TaskIds \ {monitoring_tasks[p]} : task'[t] = task[t]
           /\ monitoring_tasks[p] = NoTask => UNCHANGED vars]_vars

\* C29 witness: p1 was stopped in the middle of a cycle that had raised an alert
\* and its loop has not resumed yet, while the loop of p2 is registered and
\* running and both connections are registered.
C29_Witness ==
    \E t, u \in TaskIds :
        /\ task[t].project = "p1" /\ task[t].stopped /\ task[t].cancel
        /\ monitoring_tasks["p1"] = NoTask
        /\ task[u].project = "p2" /\ monitoring_tasks["p2"] = u /\ Alive(u) /\ task[u].pc = "gather"
        /\ monitored["p1"] = {"k1"}
        /\ history["p1"]["k1"] = <<SeedSnapshot>>
        /\ alerts["p1"] # <<>>
        /\ websocket_connections = {"w1", "w2"}

\* The list in the opposite order.
Reverse(list) == [i \in 1..Len(list) |-> list[Len(list) + 1 - i]]

====
